---- MODULE Spec2Model ----
(***************************************************************************)
(* Model of the numeric core of portfolio-pricer:                          *)
(*   portfolio.py  Position, Portfolio (from_dataframe, to_dataframe,      *)
(*                 totals)                                                 *)
(*   io_utils.py   load_portfolio_csv (required-column check)              *)
(*   analytics.py  compute_daily_returns, portfolio_volatility             *)
(*                                                                         *)
(* Numbers are exact: Python floats are modelled as integers, and every    *)
(* quotient the code forms is kept as an exact fraction [num, den].        *)
(* An Optional value is a sequence: <<>> is None / NaN, <<v>> is v.        *)
(***************************************************************************)
EXTENDS Integers, Sequences, FiniteSets

VARIABLES positions, report, totals,
          df, loaded, built,
          price_history, daily_returns,
          returns, weights, pvol
\* positions      Portfolio.positions
\* report         outcome of Portfolio.to_dataframe
\* totals         the four total_* properties as read from the Portfolio
\* df             the input batch (columns present, raw rows)
\* loaded, built  outcomes of load_portfolio_csv and Portfolio.from_dataframe
\* price_history  the price table handed to compute_daily_returns
\* daily_returns  outcome of compute_daily_returns
\* returns, weights, pvol   arguments and outcome of portfolio_volatility

vars == <<positions, report, totals, df, loaded, built,
          price_history, daily_returns, returns, weights, pvol>>

\* ---------------------------------------------------------------- bounds
MaxPositions == 3
MaxBatch == 2
MaxDates == 3
MaxRows == 3
MaxCols == 2
MaxWeights == 3

\* ------------------------------------------------------- optional values
None == <<>>
Some(v) == <<v>>
IsNone(x) == x = <<>>
notna(x) == x # <<>>
Val(x) == x[1]
fillna(x, d) == IF x = <<>> THEN d ELSE x[1]

\* exact fractions
Frac(n, d) == [num |-> n, den |-> d]
FracEq(a, b) == a.num * b.den = b.num * a.den
FracAdd(a, b) == [num |-> a.num * b.den + b.num * a.den, den |-> a.den * b.den]

Unset == [status |-> "unset"]
EmptyFrame == [columns |-> {}, rows |-> <<>>]
EmptyTable == [cols |-> 0, rows |-> <<>>]

RECURSIVE SumSeq(_)
SumSeq(s) == IF s = <<>> THEN 0 ELSE s[1] + SumSeq(Tail(s))

\* all sequences over S of length 0..n
SeqsUpTo(S, n) == UNION {[1..k -> S] : k \in 0..n}

\* -------------------------------------------------------------- Position
Quantities == {-1, 0, 2}
AvgCosts == {0, 3}
LatestPrices == {None, Some(5)}
Tickers == {"AAA"}

Position == [ticker : Tickers, quantity : Quantities, avg_cost : AvgCosts,
             latest_price : LatestPrices]

cost_basis(p) == p.quantity * p.avg_cost

market_value_zero(p) ==
    IF p.latest_price = None THEN Some(0) ELSE Some(p.quantity * Val(p.latest_price))

market_value(p) ==
    IF p.latest_price = None THEN None ELSE Some(p.quantity * Val(p.latest_price))

unrealized_pl(p) ==
    IF market_value(p) = None THEN None
    ELSE Some(Val(market_value(p)) - cost_basis(p))

unrealized_pl_pct(p) ==
    IF unrealized_pl(p) = None \/ cost_basis(p) = 0 THEN None
    ELSE Some(Frac(Val(unrealized_pl(p)) * 100, cost_basis(p)))

\* ------------------------------------------------------------- Portfolio
total_cost_basis(ps) == SumSeq([i \in 1..Len(ps) |-> cost_basis(ps[i])])

IsPriced(p) == market_value(p) # None

total_market_value_sum(ps) ==
    Some(SumSeq([i \in 1..Len(ps) |-> fillna(market_value(ps[i]), 0)]))

total_market_value(ps) ==
    LET values == [i \in 1..Len(SelectSeq(ps, IsPriced)) |->
                       Val(market_value(SelectSeq(ps, IsPriced)[i]))]
    IN  IF values = <<>> THEN None ELSE Some(SumSeq(values))

total_unrealized_pl_priced_only(ps) ==
    IF total_market_value(ps) = None THEN None
    ELSE Some(SumSeq([i \in 1..Len(ps) |-> fillna(unrealized_pl(ps[i]), 0)]))

total_unrealized_pl(ps) ==
    IF total_market_value(ps) = None THEN None
    ELSE Some(Val(total_market_value(ps)) - total_cost_basis(ps))

total_unrealized_pl_pct_anyzero(ps) ==
    IF total_unrealized_pl(ps) = None
       \/ \E i \in 1..Len(ps) : cost_basis(ps[i]) = 0
    THEN None
    ELSE Some(Frac(Val(total_unrealized_pl(ps)) * 100, total_cost_basis(ps)))

total_unrealized_pl_pct(ps) ==
    IF total_unrealized_pl(ps) = None \/ total_cost_basis(ps) = 0 THEN None
    ELSE Some(Frac(Val(total_unrealized_pl(ps)) * 100, total_cost_basis(ps)))

\* one row of the report, before the weight column is attached
ReportRow(p) ==
    [ticker |-> p.ticker, quantity |-> p.quantity, avg_cost |-> p.avg_cost,
     cost_basis |-> cost_basis(p), latest_price |-> p.latest_price,
     market_value |-> market_value(p), unrealized_pl |-> unrealized_pl(p),
     unrealized_pl_pct |-> unrealized_pl_pct(p), weight_pct |-> None]

BaseColumns == {"ticker", "quantity", "avg_cost", "cost_basis", "latest_price",
                "market_value", "unrealized_pl", "unrealized_pl_pct", "sector"}

\* df["weight_pct"] = df["market_value"].fillna(0.0) / total_value * 100.0
weight_column_priced_only(rows, total_value) ==
    [i \in 1..Len(rows) |->
        IF rows[i].market_value = None THEN rows[i]
        ELSE [rows[i] EXCEPT !.weight_pct =
                 Some(Frac(Val(rows[i].market_value) * 100, total_value))]]

weight_column(rows, total_value) ==
    [i \in 1..Len(rows) |->
        [rows[i] EXCEPT !.weight_pct =
            Some(Frac(fillna(rows[i].market_value, 0) * 100, total_value))]]

total_value_abs(rows) ==
    SumSeq([i \in 1..Len(rows) |->
               IF fillna(rows[i].market_value, 0) < 0
               THEN 0 - fillna(rows[i].market_value, 0)
               ELSE fillna(rows[i].market_value, 0)])

\* df["market_value"].fillna(0.0).sum()
total_value_of(rows) ==
    SumSeq([i \in 1..Len(rows) |-> fillna(rows[i].market_value, 0)])

\* pd.DataFrame([]) has no columns, so df["market_value"] raises KeyError
to_dataframe_empty(ps) ==
    [status |-> "error", error |-> "KeyError"]

to_dataframe(ps) ==
    IF ps = <<>> THEN to_dataframe_empty(ps)
    ELSE LET rows == [i \in 1..Len(ps) |-> ReportRow(ps[i])]
             anyValue == \E i \in 1..Len(rows) : notna(rows[i].market_value)
             total_value == total_value_of(rows)
         IN  IF anyValue /\ total_value > 0
             THEN [status |-> "ok", rows |-> weight_column(rows, total_value),
                   columns |-> BaseColumns \cup {"weight_pct"}]
             ELSE [status |-> "ok", rows |-> rows, columns |-> BaseColumns]

\* --------------------------------------------------- portfolio actions
InitPortfolio ==
    /\ \E k \in 0..MaxPositions : positions \in [1..k -> Position]
    /\ report = Unset /\ totals = Unset
    /\ df = EmptyFrame /\ loaded = Unset /\ built = Unset
    /\ price_history = EmptyTable /\ daily_returns = Unset
    /\ returns = EmptyTable /\ weights = <<>> /\ pvol = Unset

ToDataframe ==
    /\ report = Unset
    /\ report' = to_dataframe(positions)
    /\ UNCHANGED <<positions, totals, df, loaded, built, price_history,
                   daily_returns, returns, weights, pvol>>

ReadTotals ==
    /\ totals = Unset
    /\ totals' = [status |-> "ok",
                  total_cost_basis |-> total_cost_basis(positions),
                  total_market_value |-> total_market_value(positions),
                  total_unrealized_pl |-> total_unrealized_pl(positions),
                  total_unrealized_pl_pct |-> total_unrealized_pl_pct(positions)]
    /\ UNCHANGED <<positions, report, df, loaded, built, price_history,
                   daily_returns, returns, weights, pvol>>

NextPortfolio == ToDataframe \/ ReadTotals

SpecPortfolio == InitPortfolio /\ [][NextPortfolio]_vars

\* ------------------------------------------------ claims on the portfolio
Priced(i) == positions[i].latest_price # None
Contribution(i) ==
    IF Priced(i) THEN positions[i].quantity * Val(positions[i].latest_price) ELSE 0
SummedValue == SumSeq([i \in 1..Len(positions) |-> Contribution(i)])

RECURSIVE SumWeights(_)
SumWeights(rows) ==
    IF rows = <<>> THEN Frac(0, 1)
    ELSE IF rows[1].weight_pct = None THEN SumWeights(Tail(rows))
    ELSE FracAdd(Val(rows[1].weight_pct), SumWeights(Tail(rows)))

\* C1: in every report row cost_basis = quantity * avg_cost; with a price,
\* market_value = quantity * latest_price and unrealized_pl = market_value -
\* cost_basis; without a price market_value, unrealized_pl and
\* unrealized_pl_pct are all undefined (never zero).
C1_PositionValuation ==
    report.status = "ok" =>
        \A i \in 1..Len(report.rows) :
            LET p == positions[i]
                r == report.rows[i]
            IN  /\ r.cost_basis = p.quantity * p.avg_cost
                /\ Priced(i) =>
                      /\ r.market_value = Some(p.quantity * Val(p.latest_price))
                      /\ r.unrealized_pl =
                            Some(p.quantity * Val(p.latest_price) - r.cost_basis)
                /\ ~Priced(i) =>
                      /\ r.market_value = None
                      /\ r.unrealized_pl = None
                      /\ r.unrealized_pl_pct = None

C1_Witness ==
    /\ report.status = "ok"
    /\ \E i, j \in 1..Len(positions) :
          /\ Priced(i) /\ positions[i].quantity # 0 /\ positions[i].avg_cost # 0
          /\ ~Priced(j) /\ positions[j].quantity # 0

\* C2: total_market_value is undefined exactly when no position has a
\* defined market value (the empty list included); otherwise it is the sum
\* of the defined market values, unpriced positions contributing 0.
\* total_cost_basis is always defined and sums cost_basis over all positions.
C2_Totals ==
    totals.status = "ok" =>
        /\ (totals.total_market_value = None)
              <=> (\A i \in 1..Len(positions) : ~Priced(i))
        /\ (totals.total_market_value # None)
              => Val(totals.total_market_value) = SummedValue
        /\ totals.total_cost_basis =
              SumSeq([i \in 1..Len(positions) |->
                         positions[i].quantity * positions[i].avg_cost])

C2_Witness ==
    /\ totals.status = "ok"
    /\ totals.total_market_value # None
    /\ Val(totals.total_market_value) # 0
    /\ totals.total_cost_basis # 0
    /\ \E i, j \in 1..Len(positions) : Priced(i) /\ ~Priced(j)

\* C3: weights are all-or-nothing: when the summed market value (missing
\* counted as 0) is strictly positive every row carries weight_pct =
\* market_value (missing as 0) / sum * 100; otherwise no row carries one.
C3_WeightsAllOrNothing ==
    report.status = "ok" =>
        /\ SummedValue > 0 =>
              /\ "weight_pct" \in report.columns
              /\ \A i \in 1..Len(report.rows) :
                    /\ report.rows[i].weight_pct # None
                    /\ FracEq(Val(report.rows[i].weight_pct),
                              Frac(Contribution(i) * 100, SummedValue))
        /\ SummedValue <= 0 =>
              /\ "weight_pct" \notin report.columns
              /\ \A i \in 1..Len(report.rows) : report.rows[i].weight_pct = None

C3_Witness ==
    /\ report.status = "ok"
    /\ "weight_pct" \in report.columns
    /\ \E i, j \in 1..Len(positions) : ~Priced(i) /\ Priced(j) /\ Contribution(j) < 0

C5_EmptyPortfolio ==
    positions = <<>> =>
        /\ report # Unset =>
              /\ report.status = "ok"
              /\ "weight_pct" \notin report.columns
        /\ totals # Unset =>
              /\ totals.total_cost_basis = 0
              /\ totals.total_market_value = None

\* C8: a position with cost_basis = 0 has unrealized_pl_pct undefined, the
\* definedness of every row's percentage depends on that row alone, and
\* total_unrealized_pl_pct is undefined only when total_market_value is
\* undefined or total_cost_basis is exactly zero, and otherwise equals
\* total_unrealized_pl / total_cost_basis * 100.
C8_ZeroCostBasis ==
    /\ report.status = "ok" =>
          \A i \in 1..Len(report.rows) :
              (report.rows[i].unrealized_pl_pct = None)
                  <=> (~Priced(i) \/ positions[i].quantity * positions[i].avg_cost = 0)
    /\ totals.status = "ok" =>
          /\ (totals.total_unrealized_pl_pct = None)
                <=> (totals.total_market_value = None \/ totals.total_cost_basis = 0)
          /\ totals.total_unrealized_pl_pct # None =>
                FracEq(Val(totals.total_unrealized_pl_pct),
                       Frac(Val(totals.total_unrealized_pl) * 100,
                            totals.total_cost_basis))

C8_Witness ==
    /\ report.status = "ok"
    /\ totals.status = "ok"
    /\ totals.total_unrealized_pl_pct # None
    /\ \E i, j \in 1..Len(positions) :
          /\ Priced(i) /\ positions[i].avg_cost = 0 /\ positions[i].quantity # 0
          /\ report.rows[i].unrealized_pl_pct = None
          /\ report.rows[j].unrealized_pl_pct # None

\* ------------------------------------------------- building a Portfolio
\* A raw cell is [t |-> "num", v |-> n], [t |-> "str"] (text that float()
\* rejects) or [t |-> "nan"] (missing).
Num(n) == [t |-> "num", v |-> n]
NonNumeric == [t |-> "str"]
NaN == [t |-> "nan"]

REQUIRED_COLUMNS == {"ticker", "quantity", "avg_cost"}

RawRow == [ticker : {Some("aaa"), None},
           quantity : {Num(2), NonNumeric},
           avg_cost : {Num(3), NonNumeric},
           latest_price : {Num(5), NaN}]

ColumnSets == {REQUIRED_COLUMNS \cup {"latest_price"}, REQUIRED_COLUMNS,
               {"ticker", "avg_cost", "latest_price"},
               {"quantity", "avg_cost", "latest_price"}}

\* str(x).upper(): a missing ticker is the float nan, whose str is "nan"
upper_str(cell) ==
    IF cell = None THEN "NAN"
    ELSE CASE Val(cell) = "aaa" -> "AAA"
           [] OTHER -> Val(cell)

KeyError == [status |-> "error", error |-> "KeyError"]
ValueError == [status |-> "error", error |-> "ValueError"]

\* the Position(...) expression of one loop iteration, arguments evaluated
\* left to right
row_to_position(columns, row) ==
    IF "ticker" \notin columns THEN KeyError
    ELSE IF "quantity" \notin columns THEN KeyError
    ELSE IF row.quantity.t = "str" THEN ValueError
    ELSE IF "avg_cost" \notin columns THEN KeyError
    ELSE IF row.avg_cost.t = "str" THEN ValueError
    ELSE [status |-> "ok",
          position |-> [ticker |-> upper_str(row.ticker),
                        quantity |-> row.quantity.v,
                        avg_cost |-> row.avg_cost.v,
                        latest_price |->
                            IF "latest_price" \in columns /\ row.latest_price.t = "num"
                            THEN Some(row.latest_price.v) ELSE None]]

RECURSIVE from_dataframe_loop(_, _, _)
from_dataframe_loop(frame, i, acc) ==
    IF i > Len(frame.rows) THEN [status |-> "ok", positions |-> acc]
    ELSE LET r == row_to_position(frame.columns, frame.rows[i])
         IN  IF r.status = "error" THEN r
             ELSE from_dataframe_loop(frame, i + 1, Append(acc, r.position))

from_dataframe(frame) == from_dataframe_loop(frame, 1, <<>>)

load_portfolio_csv(frame) ==
    LET missing == {c \in REQUIRED_COLUMNS : c \notin frame.columns}
    IN  IF missing # {} THEN ValueError ELSE [status |-> "ok", frame |-> frame]

InitBuild ==
    /\ \E k \in 0..MaxBatch : df \in [columns : ColumnSets, rows : [1..k -> RawRow]]
    /\ loaded = Unset /\ built = Unset
    /\ positions = <<>> /\ report = Unset /\ totals = Unset
    /\ price_history = EmptyTable /\ daily_returns = Unset
    /\ returns = EmptyTable /\ weights = <<>> /\ pvol = Unset

\* cli.main: load_portfolio_csv(args.file); a failure ends the run
LoadPortfolioCsv ==
    /\ loaded = Unset /\ built = Unset
    /\ loaded' = load_portfolio_csv(df)
    /\ UNCHANGED <<positions, report, totals, df, built, price_history,
                   daily_returns, returns, weights, pvol>>

\* Portfolio.from_dataframe, called on a loaded frame (cli) or directly
FromDataframe ==
    /\ built = Unset
    /\ loaded.status # "error"
    /\ built' = from_dataframe(df)
    /\ positions' = IF built'.status = "ok" THEN built'.positions ELSE positions
    /\ UNCHANGED <<report, totals, df, loaded, price_history,
                   daily_returns, returns, weights, pvol>>

NextBuild == LoadPortfolioCsv \/ FromDataframe

SpecBuild == InitBuild /\ [][NextBuild]_vars

MissingTicker(frame) ==
    "ticker" \in frame.columns /\ \E i \in 1..Len(frame.rows) : frame.rows[i].ticker = None
NonNumericField(frame) ==
    \E i \in 1..Len(frame.rows) :
        \/ "quantity" \in frame.columns /\ frame.rows[i].quantity.t = "str"
        \/ "avg_cost" \in frame.columns /\ frame.rows[i].avg_cost.t = "str"
MissingColumn(frame) == ~(REQUIRED_COLUMNS \subseteq frame.columns)

\* C7: building a portfolio from a structurally invalid batch (a row with a
\* missing ticker, a row with a non-numeric quantity or avg_cost, or a
\* required column absent) fails with a validation error and produces no
\* Portfolio at all.
C7_InvalidBatchRejected ==
    (built # Unset /\ (MissingTicker(df) \/ NonNumericField(df) \/ MissingColumn(df)))
        => built.status = "error"

\* ------------------------------------------------ compute_daily_returns
\* A price table is [cols |-> n, rows |-> <<[date |-> d, cells |-> <<..>>]>>],
\* rows in the caller's order, cells holding Some(price).
Prices == {1, 2}
MaxTickers == 2

\* DataFrame.empty: some axis has length 0
empty(table) == table.cols = 0 \/ table.rows = <<>>

RECURSIVE insert_by_date(_, _)
insert_by_date(row, sorted) ==
    IF sorted = <<>> THEN <<row>>
    ELSE IF row.date < sorted[1].date THEN <<row>> \o sorted
    ELSE <<sorted[1]>> \o insert_by_date(row, Tail(sorted))

RECURSIVE sort_rows(_)
sort_rows(rows) ==
    IF rows = <<>> THEN <<>> ELSE insert_by_date(rows[1], sort_rows(Tail(rows)))

sort_index_unsorted(table) == table

sort_index(table) == [table EXCEPT !.rows = sort_rows(table.rows)]

\* (x[t] - x[t-1]) / x[t-1] per column; the first row has no predecessor
pct_change(table) ==
    [table EXCEPT !.rows =
        [i \in 1..Len(table.rows) |->
            [date |-> table.rows[i].date,
             cells |-> [c \in 1..table.cols |->
                 IF i = 1 \/ table.rows[i].cells[c] = None
                          \/ table.rows[i - 1].cells[c] = None
                 THEN None
                 ELSE Some(Frac(Val(table.rows[i].cells[c])
                                    - Val(table.rows[i - 1].cells[c]),
                                Val(table.rows[i - 1].cells[c])))]]]]

AnyCell(row) == \E c \in 1..Len(row.cells) : row.cells[c] # None

dropna_all(table) == [table EXCEPT !.rows = SelectSeq(table.rows, AnyCell)]

compute_daily_returns(table) ==
    IF empty(table) THEN EmptyTable
    ELSE dropna_all(pct_change(sort_index(table)))

\* rows with pairwise distinct dates from 1..MaxDates, in any order
DateOrders ==
    {ds \in SeqsUpTo(1..MaxDates, MaxDates) :
        \A i, j \in 1..Len(ds) : i # j => ds[i] # ds[j]}

PriceTable(n, ds, ps) ==
    [cols |-> n, rows |-> [i \in 1..Len(ds) |-> [date |-> ds[i], cells |-> ps[i]]]]

InitReturns ==
    /\ \E n \in 0..MaxTickers, ds \in DateOrders :
          \E ps \in [1..Len(ds) -> [1..n -> {Some(v) : v \in Prices}]] :
              price_history = PriceTable(n, ds, ps)
    /\ daily_returns = Unset
    /\ positions = <<>> /\ report = Unset /\ totals = Unset
    /\ df = EmptyFrame /\ loaded = Unset /\ built = Unset
    /\ returns = EmptyTable /\ weights = <<>> /\ pvol = Unset

ComputeDailyReturns ==
    /\ daily_returns = Unset
    /\ daily_returns' = [status |-> "ok", table |-> compute_daily_returns(price_history)]
    /\ UNCHANGED <<positions, report, totals, df, loaded, built, price_history,
                   returns, weights, pvol>>

NextReturns == ComputeDailyReturns

SpecReturns == InitReturns /\ [][NextReturns]_vars

\* the input row dated d, and the input row at the date immediately before d
RowAt(d) == CHOOSE r \in {price_history.rows[i] : i \in 1..Len(price_history.rows)} :
                r.date = d
InputDates == {price_history.rows[i].date : i \in 1..Len(price_history.rows)}
PrevDate(d) == CHOOSE e \in InputDates :
                   e < d /\ \A f \in InputDates : f < d => f <= e
EarliestDate == CHOOSE e \in InputDates : \A f \in InputDates : e <= f

\* C9: for n >= 1 rows of distinct dates with positive prices, in any row
\* order, compute_daily_returns yields exactly n-1 rows in ascending date
\* order (every date but the earliest), each cell the change relative to the
\* same ticker's price at the immediately preceding date; increasing prices
\* give positive entries; an empty table yields an empty table.
C9_DailyReturns ==
    daily_returns.status = "ok" =>
        LET out == daily_returns.table.rows
            n == Len(price_history.rows)
        IN  IF empty(price_history) THEN out = <<>>
            ELSE /\ Len(out) = n - 1
                 /\ \A k \in 1..Len(out) :
                       /\ out[k].date \in InputDates \ {EarliestDate}
                       /\ k > 1 => out[k - 1].date < out[k].date
                       /\ \A c \in 1..price_history.cols :
                             LET cur == Val(RowAt(out[k].date).cells[c])
                                 prev == Val(RowAt(PrevDate(out[k].date)).cells[c])
                             IN  /\ out[k].cells[c] # None
                                 /\ FracEq(Val(out[k].cells[c]),
                                           Frac(cur - prev, prev))
                                 /\ cur > prev =>
                                       Val(out[k].cells[c]).num
                                           * Val(out[k].cells[c]).den > 0

C9_Witness ==
    /\ daily_returns.status = "ok"
    /\ Len(price_history.rows) = 3
    /\ price_history.rows[1].date > price_history.rows[2].date
    /\ Len(daily_returns.table.rows) = 2
    /\ \E c \in 1..price_history.cols :
          Val(daily_returns.table.rows[2].cells[c]).num > 0

\* -------------------------------------------------- portfolio_volatility
\* A return table is [cols |-> n, rows |-> <<[date |-> d, cells |-> <<..>>]>>]
\* with cells Some(r) or None (NaN).
TRADING_DAYS == 252

RECURSIVE Factorial(_)
Factorial(n) == IF n <= 1 THEN 1 ELSE n * Factorial(n - 1)

\* rows in which both columns hold a value (pairwise-complete observations)
CommonRows(table, i, j) ==
    {t \in 1..Len(table.rows) :
        table.rows[t].cells[i] # None /\ table.rows[t].cells[j] # None}

RECURSIVE SumOver(_, _)
SumOver(f, S) ==
    IF S = {} THEN 0
    ELSE LET x == CHOOSE y \in S : TRUE IN f[x] + SumOver(f, S \ {x})

\* the common denominator of all sample covariances of the table
CovDen(table) == Factorial(Len(table.rows))

\* sample covariance (N-1) of columns i and j, times CovDen(table);
\* None (NaN) with fewer than two common observations
cov(table, i, j) ==
    LET T == CommonRows(table, i, j)
        n == Cardinality(T)
        xi == [t \in T |-> Val(table.rows[t].cells[i])]
        xj == [t \in T |-> Val(table.rows[t].cells[j])]
        xx == [t \in T |-> xi[t] * xj[t]]
    IN  IF n < 2 THEN None
        ELSE Some((CovDen(table) \div (n * (n - 1)))
                     * (n * SumOver(xx, T) - SumOver(xi, T) * SumOver(xj, T)))

\* w' . Cov . w times CovDen(table); NaN as soon as one entry of Cov is NaN
daily_var(table, w) ==
    LET idx == (1..table.cols) \X (1..table.cols)
    IN  IF \E ij \in idx : cov(table, ij[1], ij[2]) = None THEN None
        ELSE Some(SumOver([ij \in idx |->
                              w[ij[1]] * w[ij[2]] * Val(cov(table, ij[1], ij[2]))],
                          idx))

\* the outcome: None, a raised error, NaN, or the number whose square is
\* the fraction "squared"
portfolio_volatility(table, w) ==
    IF empty(table) THEN [status |-> "ok", kind |-> "None"]
    ELSE IF table.cols # Len(w) THEN ValueError
    ELSE LET v == daily_var(table, w)
         IN  IF v = None THEN [status |-> "ok", kind |-> "NaN"]
             ELSE IF Val(v) < 0 THEN [status |-> "ok", kind |-> "None"]
             ELSE [status |-> "ok", kind |-> "num",
                   squared |-> Frac(Val(v) * TRADING_DAYS, CovDen(table))]

ReturnCells == {None, Some(-1), Some(1)}
WeightValues == {-1, 1}

ReturnTable(n, cs) ==
    [cols |-> n, rows |-> [i \in 1..Len(cs) |-> [date |-> i, cells |-> cs[i]]]]

InitVolatility ==
    /\ \E n \in 0..MaxCols, k \in 0..MaxRows :
          \E cs \in [1..k -> [1..n -> ReturnCells]] : returns = ReturnTable(n, cs)
    /\ \E k \in 0..MaxWeights : weights \in [1..k -> WeightValues]
    /\ pvol = Unset
    /\ positions = <<>> /\ report = Unset /\ totals = Unset
    /\ df = EmptyFrame /\ loaded = Unset /\ built = Unset
    /\ price_history = EmptyTable /\ daily_returns = Unset

PortfolioVolatility ==
    /\ pvol = Unset
    /\ pvol' = portfolio_volatility(returns, weights)
    /\ UNCHANGED <<positions, report, totals, df, loaded, built, price_history,
                   daily_returns, returns, weights>>

NextVolatility == PortfolioVolatility

SpecVolatility == InitVolatility /\ [][NextVolatility]_vars

\* C6: with a weight sequence whose length differs from the number of
\* ticker columns, portfolio_volatility fails with a usage error for every
\* return table, whatever its number of rows; it never returns a number or
\* undefined.
C6_DimensionMismatch ==
    (pvol # Unset /\ returns.cols # Len(weights)) => pvol.status = "error"

\* C10: with weights of matching length, portfolio_volatility returns
\* undefined when the table is empty or the daily variance is negative, in
\* every other case a defined non-negative number, and never a not-a-number
\* value.
C10_NeverNaN ==
    (pvol # Unset /\ returns.cols = Len(weights)) =>
        /\ pvol.status = "ok"
        /\ pvol.kind \in {"None", "num"}
        /\ empty(returns) => pvol.kind = "None"
        /\ (pvol.kind = "None" /\ ~empty(returns)) =>
              /\ daily_var(returns, weights) # None
              /\ Val(daily_var(returns, weights)) < 0
        /\ pvol.kind = "num" => pvol.squared.num * pvol.squared.den >= 0

\* sum of the rows' unrealized_pl (defined for priced rows only) and the
\* cost basis held in unpriced positions
PricedPL ==
    SumSeq([i \in 1..Len(report.rows) |-> fillna(report.rows[i].unrealized_pl, 0)])
UnpricedCost ==
    SumSeq([i \in 1..Len(positions) |->
               IF Priced(i) THEN 0 ELSE positions[i].quantity * positions[i].avg_cost])

\* C11: whenever total_unrealized_pl is defined it equals total_market_value
\* - total_cost_basis, the cost basis of unpriced positions included; so it
\* equals the sum of unrealized_pl over priced positions minus the sum of
\* cost_basis over unpriced ones, and equals the plain sum of the positions'
\* unrealized_pl exactly when every position is priced or the unpriced cost
\* bases sum to zero.
C11_TotalUnrealizedPl ==
    (/\ totals.status = "ok"
     /\ report.status = "ok"
     /\ totals.total_unrealized_pl # None)
        => /\ totals.total_market_value # None
           /\ Val(totals.total_unrealized_pl) =
                 Val(totals.total_market_value) - totals.total_cost_basis
           /\ Val(totals.total_unrealized_pl) = PricedPL - UnpricedCost
           /\ (Val(totals.total_unrealized_pl) = PricedPL)
                 <=> (\/ \A i \in 1..Len(positions) : Priced(i)
                      \/ UnpricedCost = 0)

C11_Witness ==
    /\ totals.status = "ok"
    /\ report.status = "ok"
    /\ totals.total_unrealized_pl # None
    /\ UnpricedCost # 0
    /\ PricedPL # 0
    /\ Val(totals.total_unrealized_pl) # PricedPL

====
